---------------------------- MODULE Spec2Model ----------------------------
(***************************************************************************)
(* Model of the NZEB micro-grid backend: the energy / battery / life-cycle  *)
(* cost functions of src/models.py and the request handler nzeb_model of    *)
(* src/app.py.                                                              *)
(*                                                                          *)
(* Numbers.  Python computes on IEEE-754 binary floating point with         *)
(* round-to-nearest-even.  A number is modelled as a pair <<m, e>> standing *)
(* for m * 2^e, with a significand of Precision bits (binary64 has 53), and *)
(* every arithmetic operator rounds its exact result as the hardware does.  *)
(* Precision = 9 is congruent to 53 modulo 4, the period of the binary      *)
(* expansions of 1/5 and 1/10, so decimal inputs such as 0.3, 0.8 or 0.9    *)
(* are rounded in the same direction as in binary64.                        *)
(***************************************************************************)
EXTENDS Integers, Sequences, FiniteSets, TLC

VARIABLES
    req,      \* nzeb_model: request id -> the locals of that invocation
    heap,     \* Battery objects constructed by the handler, by reference
    models,   \* LinearRegression objects constructed by the handler, by reference
    bat,      \* a Battery object driven directly through charge / discharge
    last,     \* the last call made on bat: its name, argument, result, soc before
    ncalls,   \* number of calls made on bat
    pure      \* one application of a pure function: name, arguments, result

vars == <<req, heap, models, bat, last, ncalls, pure>>

----------------------------------------------------------------------------
(* Bounds of the model *)

Precision == 9
MaxCalls == 3

----------------------------------------------------------------------------
(* Floating point: float.__add__, __sub__, __mul__, __truediv__, __pow__,   *)
(* comparisons and min, rounding to nearest, ties to even.                  *)

RECURSIVE Pow2(_)
Pow2(k) == IF k = 0 THEN 1 ELSE 2 * Pow2(k - 1)

RECURSIVE BitLen(_)
BitLen(n) == IF n = 0 THEN 0 ELSE 1 + BitLen(n \div 2)

Abs(n) == IF n < 0 THEN -n ELSE n

\* The float nearest to M * 2^E (ties to even), in canonical form: zero is
\* <<0, 0>>, any other value has 2^(Precision-1) <= |m| < 2^Precision.
Round(M, E) ==
    IF M = 0 THEN <<0, 0>>
    ELSE LET A  == Abs(M)
             n  == BitLen(A)
             sg == IF M < 0 THEN -1 ELSE 1
         IN  IF n <= Precision
             THEN <<sg * A * Pow2(Precision - n), E - (Precision - n)>>
             ELSE LET k    == n - Precision
                      q    == A \div Pow2(k)
                      r    == A % Pow2(k)
                      half == Pow2(k - 1)
                      q1   == IF r > half \/ (r = half /\ q % 2 = 1)
                              THEN q + 1 ELSE q
                  IN  IF q1 = Pow2(Precision)
                      THEN <<sg * Pow2(Precision - 1), E + k + 1>>
                      ELSE <<sg * q1, E + k>>

FInt(n) == Round(n, 0)

Zero == <<0, 0>>
One == FInt(1)

IsZero(a) == a[1] = 0

FNeg(a) == <<-a[1], a[2]>>

FMul(a, b) == Round(a[1] * b[1], a[2] + b[2])

\* a / b for b # 0.  The quotient is taken to Precision + 2 bits and one more
\* bit records whether a remainder was left, so that Round sees on which side
\* of a tie the exact quotient lies.
FDiv(a, b) ==
    IF a[1] = 0 THEN Zero
    ELSE LET sh == Precision + 2
             sg == IF (a[1] > 0) = (b[1] > 0) THEN 1 ELSE -1
             N  == Abs(a[1]) * Pow2(sh)
             q  == N \div Abs(b[1])
             r  == N % Abs(b[1])
         IN  Round(sg * (2 * q + (IF r = 0 THEN 0 ELSE 1)), a[2] - b[2] - sh - 1)

\* a + b.  Exponents up to Precision + 3 apart are aligned exactly; further
\* apart the smaller operand is below an eighth of the larger one's last bit
\* and only its sign can matter.
FAdd(a, b) ==
    IF a[1] = 0 THEN b
    ELSE IF b[1] = 0 THEN a
    ELSE LET hi == IF a[2] >= b[2] THEN a ELSE b
             lo == IF a[2] >= b[2] THEN b ELSE a
             d  == hi[2] - lo[2]
         IN  IF d <= Precision + 3
             THEN Round(hi[1] * Pow2(d) + lo[1], lo[2])
             ELSE Round(8 * hi[1] + (IF lo[1] > 0 THEN 1 ELSE -1), hi[2] - 3)

FSub(a, b) == FAdd(a, FNeg(b))

\* a < b on canonical pairs
FLt(a, b) ==
    IF a[1] = 0 THEN b[1] > 0
    ELSE IF b[1] = 0 THEN a[1] < 0
    ELSE IF (a[1] > 0) # (b[1] > 0) THEN a[1] < 0
    ELSE IF a[1] > 0
         THEN a[2] < b[2] \/ (a[2] = b[2] /\ a[1] < b[1])
         ELSE a[2] > b[2] \/ (a[2] = b[2] /\ a[1] < b[1])

FLe(a, b) == ~FLt(b, a)

\* Python's min(a, b): the first argument unless the second is smaller
FMin(a, b) == IF FLt(b, a) THEN b ELSE a

RECURSIVE OddPart(_)
OddPart(a) == IF a[1] # 0 /\ a[1] % 2 = 0 THEN OddPart(<<a[1] \div 2, a[2] + 1>>) ELSE a

RECURSIVE IPow(_, _)
IPow(b, y) == IF y = 0 THEN 1 ELSE b * IPow(b, y - 1)

\* a ** y for an integer y >= 0: the exact power, rounded once
FPow(a, y) == LET o == OddPart(a) IN Round(IPow(o[1], y), o[2] * y)

\* the float nearest to the decimal literal n / d
FLit(n, d) == FDiv(FInt(n), FInt(d))

\* the integer an integer-valued float stands for
FToInt(a) == IF a[2] >= 0 THEN a[1] * Pow2(a[2]) ELSE a[1] \div Pow2(-a[2])

----------------------------------------------------------------------------
(* src/models.py *)

calculate_total_energy_generated(e_pv, e_wt, e_bg) == FAdd(FAdd(e_pv, e_wt), e_bg)

calculate_energy_balance(e_generated, e_grid, e_load) ==
    FSub(FAdd(e_generated, e_grid), e_load)

calculate_pv_energy(area, efficiency, irradiance) ==
    FMul(FMul(area, efficiency), irradiance)

WindCubic(rho, area, cp, v) ==
    FDiv(FMul(FMul(FMul(FMul(FLit(1, 2), rho), area), FPow(v, 3)), cp), FInt(1000))

\* calculate_wind_power with the rated speed itself on the flat branch
WindPowerRatedAtBoundary(rho, area, cp, v, v_cut_in, v_rated, v_cut_out, p_rated) ==
    IF FLt(v, v_cut_in) \/ FLt(v_cut_out, v) THEN Zero
    ELSE IF FLe(v_cut_in, v) /\ FLt(v, v_rated) THEN WindCubic(rho, area, cp, v)
    ELSE IF FLe(v_rated, v) /\ FLe(v, v_cut_out) THEN p_rated
    ELSE Zero

calculate_wind_power(rho, area, cp, v, v_cut_in, v_rated, v_cut_out, p_rated) ==
    IF FLt(v, v_cut_in) \/ FLt(v_cut_out, v) THEN Zero
    ELSE IF FLe(v_cut_in, v) /\ FLe(v, v_rated) THEN WindCubic(rho, area, cp, v)
    ELSE IF FLt(v_rated, v) /\ FLe(v, v_cut_out) THEN p_rated
    ELSE Zero

calculate_wind_energy(rho, area, cp, v, v_cut_in, v_rated, v_cut_out, p_rated, delta_t) ==
    FMul(calculate_wind_power(rho, area, cp, v, v_cut_in, v_rated, v_cut_out, p_rated),
         delta_t)

calculate_biogas_energy(y_ch4, m_feedstock, eta_bg, hhv_ch4) ==
    LET v_ch4 == FMul(y_ch4, m_feedstock)
    IN  FDiv(FMul(FMul(eta_bg, v_ch4), hhv_ch4), FInt(24))

\* calculate_lcc, lines 152-154: the cost booked in year y of n
LccAnnualCostEveryYear(c_om, c_rep, s, y, n) == FAdd(c_om, FSub(c_rep, s))

LccAnnualCost(c_om, c_rep, s, y, n) ==
    IF y = n THEN FAdd(c_om, FSub(c_rep, s)) ELSE c_om

\* calculate_lcc, the loop from year y on with total_costs accumulated so far
RECURSIVE LccLoop(_, _, _, _, _, _, _)
LccLoop(total_costs, y, c_om, c_rep, s, r, n) ==
    IF y > n THEN total_costs
    ELSE LccLoop(FAdd(total_costs,
                      FDiv(LccAnnualCost(c_om, c_rep, s, y, n), FPow(FAdd(One, r), y))),
                 y + 1, c_om, c_rep, s, r, n)

\* calculate_lcc: the value returned, or the ZeroDivisionError of the first
\* year's division when 1 + r is zero
calculate_lcc(c_init, c_om, c_rep, s, r, n) ==
    IF n >= 1 /\ IsZero(FAdd(One, r))
    THEN [ret |-> Zero, exc |-> "ZeroDivisionError"]
    ELSE [ret |-> LccLoop(c_init, 1, c_om, c_rep, s, r, n), exc |-> "none"]

\* calculate_lcoe, the loop summing the discounted energy
RECURSIVE LcoeLoop(_, _, _, _, _)
LcoeLoop(total_discounted_energy, y, e_total_per_year, r, n) ==
    IF y > n THEN total_discounted_energy
    ELSE LcoeLoop(FAdd(total_discounted_energy,
                       FDiv(e_total_per_year, FPow(FAdd(One, r), y))),
                  y + 1, e_total_per_year, r, n)

\* calculate_lcoe: inf marks float("inf")
calculate_lcoe(lcc, e_total_per_year, r, n) ==
    IF n >= 1 /\ IsZero(FAdd(One, r))
    THEN [inf |-> FALSE, ret |-> Zero, exc |-> "ZeroDivisionError"]
    ELSE LET total_discounted_energy == LcoeLoop(Zero, 1, e_total_per_year, r, n)
         IN  IF IsZero(total_discounted_energy)
             THEN [inf |-> TRUE, ret |-> Zero, exc |-> "none"]
             ELSE [inf |-> FALSE, ret |-> FDiv(lcc, total_discounted_energy),
                   exc |-> "none"]

calculate_co2_reduction(e_offset, ef) == FMul(e_offset, ef)

\* Battery.__init__
Battery(capacity, initial_soc, eta_c, eta_d) ==
    [capacity |-> capacity, soc |-> initial_soc, eta_c |-> eta_c, eta_d |-> eta_d]

\* Battery.charge: the object after the call, the value returned, the exception
\* raised (a division by a zero capacity raises before soc is assigned, a
\* division by a zero eta_c after).
charge(self, energy_kwh) ==
    LET space_available == FMul(FSub(One, self.soc), self.capacity)
        energy_to_store == FMul(energy_kwh, self.eta_c)
        actual_charge   == FMin(space_available, energy_to_store)
    IN  IF IsZero(self.capacity)
        THEN [self |-> self, ret |-> Zero, exc |-> "ZeroDivisionError"]
        ELSE LET after == [self EXCEPT
                              !.soc = FAdd(self.soc, FDiv(actual_charge, self.capacity))]
             IN  IF IsZero(self.eta_c)
                 THEN [self |-> after, ret |-> Zero, exc |-> "ZeroDivisionError"]
                 ELSE [self |-> after, ret |-> FDiv(actual_charge, self.eta_c),
                       exc |-> "none"]

\* Battery.discharge
discharge(self, energy_kwh) ==
    LET energy_available == FMul(FMul(self.soc, self.capacity), self.eta_d)
        actual_discharge == FMin(energy_available, energy_kwh)
    IN  IF IsZero(self.eta_d) \/ IsZero(self.capacity)
        THEN [self |-> self, ret |-> Zero, exc |-> "ZeroDivisionError"]
        ELSE [self |-> [self EXCEPT
                           !.soc = FSub(self.soc,
                                        FDiv(FDiv(actual_discharge, self.eta_d),
                                             self.capacity))],
              ret |-> actual_discharge, exc |-> "none"]

----------------------------------------------------------------------------
(* src/app.py: JSON values as request.get_json() returns them.  Every value *)
(* has the same four fields: its type t, and the number v, the object o     *)
(* (a function from keys to values) or the string s it holds.               *)

NoObj == [k \in {} |-> Zero]

JNum(x) == [t |-> "num", v |-> x, o |-> NoObj, s |-> ""]
JNull == [t |-> "null", v |-> Zero, o |-> NoObj, s |-> ""]
JArr == [t |-> "arr", v |-> Zero, o |-> NoObj, s |-> ""]
JStr(z) == [t |-> "str", v |-> Zero, o |-> NoObj, s |-> z]
JObj(f) == [t |-> "obj", v |-> Zero, o |-> f, s |-> ""]

required_keys ==
    <<"solar_inputs", "wind_inputs", "biogas_inputs", "load_demand", "grid_energy",
      "battery_inputs", "lcca_inputs", "co2_inputs">>

\* the keys the handler indexes in each section, in the order it reads them
SolarKeys == <<"area_pv", "efficiency_pv", "irradiance">>
WindKeys ==
    <<"air_density", "swept_area", "power_coefficient", "wind_speed", "v_cut_in",
      "v_rated", "v_cut_out", "p_rated", "delta_t">>
BiogasKeys == <<"methane_yield", "mass_feedstock", "efficiency_bg", "hhv_ch4">>
BatteryKeys == <<"capacity", "eta_c", "eta_d">>
LccaKeys == <<"c_init", "c_om", "c_rep", "s", "r", "n">>
Co2Keys == <<"emission_factor">>

Range(q) == {q[j] : j \in 1..Len(q)}

NoExc == [exc |-> "none", detail |-> ""]
TypeError == [exc |-> "TypeError", detail |-> ""]
ZeroDivisionError == [exc |-> "ZeroDivisionError", detail |-> ""]

\* section[key] for each key in turn: a section that is no object raises
\* TypeError, a missing key raises KeyError naming the key
SectionExc(section, keys) ==
    IF section.t # "obj" THEN TypeError
    ELSE IF \E j \in 1..Len(keys) : keys[j] \notin DOMAIN section.o
    THEN LET j == CHOOSE j \in 1..Len(keys) :
                      /\ keys[j] \notin DOMAIN section.o
                      /\ \A k \in 1..(j - 1) : keys[k] \in DOMAIN section.o
         IN  [exc |-> "KeyError", detail |-> keys[j]]
    ELSE NoExc

\* the first exception raised among evaluations made in this order
FirstExc(q) ==
    IF \E j \in 1..Len(q) : q[j].exc # "none"
    THEN q[CHOOSE j \in 1..Len(q) :
               q[j].exc # "none" /\ \A k \in 1..(j - 1) : q[k].exc = "none"]
    ELSE NoExc

NoBody == <<>>
NoBattery == Battery(Zero, Zero, Zero, Zero)
NoModel == [X |-> <<>>, y |-> <<>>]
NoScenario == [grid_outage |-> FALSE, excess_energy_during_outage_kWh |-> Zero,
               system_uptime_percentage |-> Zero]

\* the locals of one invocation of nzeb_model, before its first statement;
\* calls is the log of the Battery methods the invocation has called
NewRequest(data) ==
    [pc |-> "validate", data |-> data,
     e_pv |-> Zero, e_wt |-> Zero, e_bg |-> Zero, total_energy_generated |-> Zero,
     battery |-> 0, calls |-> <<>>, energy_from_generation |-> Zero,
     e_excess |-> Zero, lcc |-> Zero,
     lcoe |-> [inf |-> FALSE, ret |-> Zero], delta_co2 |-> Zero,
     scenario_results |-> NoScenario, model |-> 0,
     irradiance_samples |-> <<>>, pv_output_samples |-> <<>>,
     status |-> 0, response |-> [error |-> "", detail |-> "", body |-> NoBody]]

\* the except clauses: KeyError is answered 400, any other exception 500
HandleException(r, e) ==
    IF e.exc = "KeyError"
    THEN [r EXCEPT !.pc = "done", !.status = 400,
                   !.response = [error |-> "Missing key in input data",
                                 detail |-> e.detail, body |-> NoBody]]
    ELSE [r EXCEPT !.pc = "done", !.status = 500,
                   !.response = [error |-> "An unexpected error occurred",
                                 detail |-> e.exc, body |-> NoBody]]

\* get_json, the required-keys check and the extraction of the sections.
\* "key in data" raises TypeError on null and on a number, is false on a list
\* and on a string that does not hold the key.
ValidateStep(r) ==
    LET data == r.data
    IN  IF data.t \in {"null", "num"} THEN HandleException(r, TypeError)
        ELSE IF ~(data.t = "obj" /\ \A key \in Range(required_keys) : key \in DOMAIN data.o)
        THEN [r EXCEPT !.pc = "done", !.status = 400,
                       !.response = [error |-> "Missing required input data",
                                     detail |-> "", body |-> NoBody]]
        ELSE [r EXCEPT !.pc = "generation"]

\* arithmetic on the values read: None as an operand raises TypeError
OperandsExc(section, keys) ==
    IF \E j \in 1..Len(keys) : section.o[keys[j]].t # "num" THEN TypeError ELSE NoExc

\* e_pv, e_wt, e_bg and total_energy_generated
GenerationStep(r) ==
    LET solar_inputs  == r.data.o["solar_inputs"]
        wind_inputs   == r.data.o["wind_inputs"]
        biogas_inputs == r.data.o["biogas_inputs"]
        solarRead     == SectionExc(solar_inputs, SolarKeys)
        e == FirstExc(<<solarRead,
                        IF solarRead.exc = "none"
                        THEN OperandsExc(solar_inputs, SolarKeys) ELSE NoExc,
                        SectionExc(wind_inputs, WindKeys),
                        SectionExc(biogas_inputs, BiogasKeys)>>)
    IN  IF e.exc # "none" THEN HandleException(r, e)
        ELSE LET s == solar_inputs.o
                 w == wind_inputs.o
                 b == biogas_inputs.o
                 e_pv == calculate_pv_energy(s["area_pv"].v, s["efficiency_pv"].v,
                                             s["irradiance"].v)
                 e_wt == calculate_wind_energy(
                             w["air_density"].v, w["swept_area"].v,
                             w["power_coefficient"].v, w["wind_speed"].v,
                             w["v_cut_in"].v, w["v_rated"].v, w["v_cut_out"].v,
                             w["p_rated"].v, w["delta_t"].v)
                 e_bg == calculate_biogas_energy(
                             b["methane_yield"].v, b["mass_feedstock"].v,
                             b["efficiency_bg"].v, b["hhv_ch4"].v)
             IN  [r EXCEPT !.pc = "battery", !.e_pv = e_pv, !.e_wt = e_wt, !.e_bg = e_bg,
                           !.total_energy_generated =
                               calculate_total_energy_generated(e_pv, e_wt, e_bg)]

\* battery_inputs.get("initial_soc", 0.5)
InitialSoc(battery_inputs) ==
    IF "initial_soc" \in DOMAIN battery_inputs.o
    THEN battery_inputs.o["initial_soc"].v ELSE FLit(1, 2)

\* battery = Battery(...): a new object, bound to the local at reference ref
BatteryStep(ref, r, h) ==
    LET battery_inputs == r.data.o["battery_inputs"]
        e == SectionExc(battery_inputs, BatteryKeys)
    IN  IF e.exc # "none" THEN [r |-> HandleException(r, e), heap |-> h]
        ELSE [r |-> [r EXCEPT !.pc = "dispatch", !.battery = ref],
              heap |-> [h EXCEPT ![ref] = Battery(battery_inputs.o["capacity"].v,
                                                  InitialSoc(battery_inputs),
                                                  battery_inputs.o["eta_c"].v,
                                                  battery_inputs.o["eta_d"].v)]]

\* the call of a Battery method by the handler: the object is updated, the
\* call is logged, an exception ends the request
CallBattery(r, h, op, arg, res, energy_from_generation) ==
    LET logged == [r EXCEPT !.calls = Append(@, [op |-> op, arg |-> arg, ret |-> res.ret])]
        h2     == [h EXCEPT ![r.battery] = res.self]
    IN  IF res.exc # "none"
        THEN [r |-> HandleException(logged, [exc |-> res.exc, detail |-> ""]), heap |-> h2]
        ELSE [r |-> [logged EXCEPT !.pc = "economics",
                                   !.energy_from_generation = energy_from_generation],
              heap |-> h2]

\* the dispatch with the battery charged also when generation equals the load
DispatchChargeOnEqual(r, h) ==
    LET energy_from_generation == r.total_energy_generated
        load_demand   == r.data.o["load_demand"]
        energy_needed == load_demand.v
    IN  IF load_demand.t # "num" THEN [r |-> HandleException(r, TypeError), heap |-> h]
        ELSE IF FLe(energy_needed, energy_from_generation)
        THEN LET excess == FSub(energy_from_generation, energy_needed)
                 res    == charge(h[r.battery], excess)
             IN  CallBattery(r, h, "charge", excess, res,
                             FSub(energy_from_generation, res.ret))
        ELSE LET deficit == FSub(energy_needed, energy_from_generation)
                 res     == discharge(h[r.battery], deficit)
             IN  CallBattery(r, h, "discharge", deficit, res,
                             FAdd(energy_from_generation, res.ret))

\* the battery simulation: charge with the excess, discharge for the deficit
DispatchStep(r, h) ==
    LET energy_from_generation == r.total_energy_generated
        load_demand   == r.data.o["load_demand"]
        energy_needed == load_demand.v
    IN  IF load_demand.t # "num" THEN [r |-> HandleException(r, TypeError), heap |-> h]
        ELSE IF FLt(energy_needed, energy_from_generation)
        THEN LET excess == FSub(energy_from_generation, energy_needed)
                 res    == charge(h[r.battery], excess)
             IN  CallBattery(r, h, "charge", excess, res,
                             FSub(energy_from_generation, res.ret))
        ELSE IF FLt(energy_from_generation, energy_needed)
        THEN LET deficit == FSub(energy_needed, energy_from_generation)
                 res     == discharge(h[r.battery], deficit)
             IN  CallBattery(r, h, "discharge", deficit, res,
                             FAdd(energy_from_generation, res.ret))
        ELSE [r |-> [r EXCEPT !.pc = "economics",
                              !.energy_from_generation = energy_from_generation],
              heap |-> h]

\* scenario_results: filled when data.get("scenario") == "grid_outage"
ScenarioResults(data, total_energy_generated, load_demand) ==
    IF "scenario" \in DOMAIN data.o /\ data.o["scenario"].t = "str"
          /\ data.o["scenario"].s = "grid_outage"
    THEN LET uptime == IF FLt(Zero, load_demand)
                       THEN FMul(FDiv(total_energy_generated, load_demand), FInt(100))
                       ELSE FInt(100)
         IN  [grid_outage |-> TRUE,
              excess_energy_during_outage_kWh |->
                  calculate_energy_balance(total_energy_generated, Zero, load_demand),
              system_uptime_percentage |-> FMin(uptime, FInt(100))]
    ELSE NoScenario

\* the energy balance, LCC, LCOE, CO2 reduction and the scenario
EconomicsStep(r) ==
    LET data        == r.data
        load_demand == data.o["load_demand"].v
        grid_energy == data.o["grid_energy"].v
        lcca_inputs == data.o["lcca_inputs"]
        co2_inputs  == data.o["co2_inputs"]
        total       == r.total_energy_generated
        lccaRead    == SectionExc(lcca_inputs, LccaKeys)
        l           == lcca_inputs.o
        lcc  == IF lccaRead.exc = "none"
                THEN calculate_lcc(l["c_init"].v, l["c_om"].v, l["c_rep"].v, l["s"].v,
                                   l["r"].v, FToInt(l["n"].v))
                ELSE [ret |-> Zero, exc |-> "none"]
        total_energy_per_year == FMul(FMul(total, FInt(24)), FInt(365))
        lcoe == IF lccaRead.exc = "none" /\ lcc.exc = "none"
                THEN calculate_lcoe(lcc.ret, total_energy_per_year, l["r"].v,
                                    FToInt(l["n"].v))
                ELSE [inf |-> FALSE, ret |-> Zero, exc |-> "none"]
        e == FirstExc(<<lccaRead, [exc |-> lcc.exc, detail |-> ""],
                        [exc |-> lcoe.exc, detail |-> ""],
                        SectionExc(co2_inputs, Co2Keys)>>)
    IN  IF e.exc # "none" THEN HandleException(r, e)
        ELSE [r EXCEPT
                 !.pc = "regression",
                 !.e_excess = calculate_energy_balance(total, grid_energy, load_demand),
                 !.lcc = lcc.ret,
                 !.lcoe = [inf |-> lcoe.inf, ret |-> lcoe.ret],
                 !.delta_co2 = calculate_co2_reduction(total,
                                                       co2_inputs.o["emission_factor"].v),
                 !.scenario_results = ScenarioResults(data, total, load_demand)]

irradiance_samples ==
    <<FLit(1, 10), FLit(2, 10), FLit(4, 10), FLit(6, 10), FLit(8, 10), FLit(10, 10)>>

\* model = LinearRegression(); model.fit(...): a new object holding the data
\* it was fitted on, bound to the local at reference ref
RegressionStep(ref, r, m) ==
    LET s == r.data.o["solar_inputs"].o
        pv_output_samples ==
            [j \in 1..Len(irradiance_samples) |->
                calculate_pv_energy(s["area_pv"].v, s["efficiency_pv"].v,
                                    irradiance_samples[j])]
    IN  [r |-> [r EXCEPT !.pc = "respond", !.model = ref,
                         !.irradiance_samples = irradiance_samples,
                         !.pv_output_samples = pv_output_samples],
         models |-> [m EXCEPT ![ref] = [X |-> irradiance_samples,
                                        y |-> pv_output_samples]]]

\* model.predict(...) and the response: predicted_pv_output is the prediction,
\* at the samples, of the model the local is bound to
RespondStep(r, h, m) ==
    [r EXCEPT
        !.pc = "done",
        !.status = 200,
        !.response =
            [error |-> "", detail |-> "",
             body |->
                [energy_generation |->
                    [solar_pv_kWh |-> r.e_pv, wind_turbine_kWh |-> r.e_wt,
                     biogas_kWh |-> r.e_bg,
                     total_generated_kWh |-> r.total_energy_generated],
                 energy_balance |->
                    [load_demand_kWh |-> r.data.o["load_demand"].v,
                     grid_energy_kWh |-> r.data.o["grid_energy"].v,
                     excess_or_curtailed_energy_kWh |-> r.e_excess],
                 battery_status |->
                    [state_of_charge_percent |-> FMul(h[r.battery].soc, FInt(100))],
                 financial_analysis |->
                    [life_cycle_cost_LCC |-> r.lcc,
                     levelized_cost_of_energy_LCOE |-> r.lcoe],
                 environmental_impact |-> [co2_emission_reduction_kg |-> r.delta_co2],
                 scenario_modeling_results |-> r.scenario_results,
                 regression_analysis |->
                    [irradiance_data |-> r.irradiance_samples,
                     pv_output_data |-> r.pv_output_samples,
                     predicted_pv_output |->
                        [fitted_on |-> m[r.model], at |-> r.irradiance_samples]]]]]

\* the reference of the Battery, and of the LinearRegression, that request i
\* constructs: each invocation constructs objects of its own
SharedBatteryRef(i) == 1

BatteryRef(i) == i

ModelRef(i) == i

\* the values of the variables a specification does not use
NoCall == [op |-> "none", arg |-> Zero, ret |-> Zero, before |-> Zero]
IdleBattery == Battery(One, Zero, One, One)
IdleReq == <<>>
IdleHeap == <<>>
IdlePure == [f |-> "none"]

----------------------------------------------------------------------------
(* Requests: the JSON bodies drawn as inputs                                *)

SolarInputs(irradiance) ==
    JObj([area_pv |-> JNum(FInt(4)), efficiency_pv |-> JNum(FLit(1, 4)),
          irradiance |-> irradiance])

\* cut-in 3, rated 10, cut-out 25 m/s, rated power 2 kW, one hour
WindInputs(wind_speed) ==
    JObj([air_density |-> JNum(FLit(6, 5)), swept_area |-> JNum(FInt(10)),
          power_coefficient |-> JNum(FLit(2, 5)), wind_speed |-> JNum(wind_speed),
          v_cut_in |-> JNum(FInt(3)), v_rated |-> JNum(FInt(10)),
          v_cut_out |-> JNum(FInt(25)), p_rated |-> JNum(FInt(2)),
          delta_t |-> JNum(One)])

BiogasInputs ==
    JObj([methane_yield |-> JNum(FLit(1, 2)), mass_feedstock |-> JNum(FInt(12)),
          efficiency_bg |-> JNum(FLit(1, 2)), hhv_ch4 |-> JNum(FInt(8))])

BatteryInputs(capacity, initial_soc, eta_c, eta_d) ==
    JObj([capacity |-> JNum(capacity), initial_soc |-> JNum(initial_soc),
          eta_c |-> JNum(eta_c), eta_d |-> JNum(eta_d)])

\* m without key k
Drop(m, k) == [x \in DOMAIN m \ {k} |-> m[x]]

\* battery_inputs without the optional initial_soc
BatteryInputsDefaultSoc(capacity, eta_c, eta_d) ==
    JObj(Drop(BatteryInputs(capacity, Zero, eta_c, eta_d).o, "initial_soc"))

LccaInputs(r) ==
    JObj([c_init |-> JNum(FInt(1000)), c_om |-> JNum(FInt(10)),
          c_rep |-> JNum(FInt(100)), s |-> JNum(FInt(20)), r |-> JNum(r),
          n |-> JNum(FInt(2))])

Co2Inputs == JObj([emission_factor |-> JNum(FLit(1, 2))])

Body(solar, wind, load_demand, battery, lcca) ==
    [solar_inputs |-> solar, wind_inputs |-> wind, biogas_inputs |-> BiogasInputs,
     load_demand |-> load_demand, grid_energy |-> JNum(One),
     battery_inputs |-> battery, lcca_inputs |-> lcca, co2_inputs |-> Co2Inputs]

\* the body with "scenario": "grid_outage" added
WithScenario(m) ==
    [x \in DOMAIN m \cup {"scenario"} |->
        IF x = "scenario" THEN JStr("grid_outage") ELSE m[x]]

IrradianceValues == {FLit(1, 2), One}
WindSpeedValues == {FInt(2), FInt(12)}
LoadValues == {FInt(1), FInt(2), FInt(5)}
RequestCapacityValues == {Zero, FInt(3), FInt(10)}
RequestSocValues == {FLit(1, 5), FLit(3, 10), FLit(3, 2)}
RequestEtaChargeValues == {Zero, FLit(9, 10)}
RequestEtaDischargeValues == {FLit(4, 5)}
RequestRateValues == {FInt(-1), FLit(1, 4)}

BatterySections ==
    {BatteryInputs(c, s, ec, ed) :
        c \in RequestCapacityValues, s \in RequestSocValues,
        ec \in RequestEtaChargeValues, ed \in RequestEtaDischargeValues}
    \cup {BatteryInputsDefaultSoc(c, ec, ed) :
        c \in RequestCapacityValues, ec \in RequestEtaChargeValues,
        ed \in RequestEtaDischargeValues}

\* bodies with every required field present and of the right type
PlainBodies ==
    {Body(SolarInputs(JNum(irr)), WindInputs(v), JNum(load), b, LccaInputs(r)) :
        irr \in IrradianceValues, v \in WindSpeedValues, load \in LoadValues,
        b \in BatterySections, r \in RequestRateValues}

WellFormedBodies == PlainBodies \cup {WithScenario(m) : m \in PlainBodies}

BaseBody ==
    Body(SolarInputs(JNum(One)), WindInputs(FInt(12)), JNum(FInt(2)),
         BatteryInputs(FInt(10), FLit(3, 10), FLit(9, 10), FLit(4, 5)),
         LccaInputs(FLit(1, 4)))

Sections ==
    <<"solar_inputs", "wind_inputs", "biogas_inputs", "battery_inputs", "lcca_inputs",
      "co2_inputs">>

SectionKeys(section) ==
    CASE section = "solar_inputs" -> SolarKeys
      [] section = "wind_inputs" -> WindKeys
      [] section = "biogas_inputs" -> BiogasKeys
      [] section = "battery_inputs" -> BatteryKeys
      [] section = "lcca_inputs" -> LccaKeys
      [] section = "co2_inputs" -> Co2Keys

\* the base body with one thing wrong: a top-level field missing, a key
\* missing inside a section, a section that is no object, a null leaf
MalformedBodies ==
    {Drop(BaseBody, k) : k \in Range(required_keys)}
    \cup {[BaseBody EXCEPT ![sec] = JObj(Drop(@.o, k))] :
            sec \in Range(Sections), k \in UNION {Range(SectionKeys(x)) : x \in Range(Sections)}}
    \cup {[BaseBody EXCEPT ![sec] = bad] :
            sec \in Range(Sections), bad \in {JNull, JNum(One), JArr, JStr("x")}}
    \cup {[BaseBody EXCEPT !["solar_inputs"] = SolarInputs(JNull)],
          [BaseBody EXCEPT !["load_demand"] = JNull]}

\* every request body drawn: objects, and bodies that are no object
RequestBodies ==
    {JObj(m) : m \in WellFormedBodies \cup MalformedBodies}
    \cup {JNull, JNum(One), JArr, JStr("x")}

----------------------------------------------------------------------------
(* The handler, one action per step of an invocation; invocations of        *)
(* different requests interleave                                            *)

Validate(i) ==
    /\ req[i].pc = "validate"
    /\ req' = [req EXCEPT ![i] = ValidateStep(@)]
    /\ UNCHANGED <<heap, models, bat, last, ncalls, pure>>

Generation(i) ==
    /\ req[i].pc = "generation"
    /\ req' = [req EXCEPT ![i] = GenerationStep(@)]
    /\ UNCHANGED <<heap, models, bat, last, ncalls, pure>>

MakeBattery(i) ==
    /\ req[i].pc = "battery"
    /\ LET c == BatteryStep(BatteryRef(i), req[i], heap)
       IN  req' = [req EXCEPT ![i] = c.r] /\ heap' = c.heap
    /\ UNCHANGED <<models, bat, last, ncalls, pure>>

Dispatch(i) ==
    /\ req[i].pc = "dispatch"
    /\ LET c == DispatchStep(req[i], heap)
       IN  req' = [req EXCEPT ![i] = c.r] /\ heap' = c.heap
    /\ UNCHANGED <<models, bat, last, ncalls, pure>>

Economics(i) ==
    /\ req[i].pc = "economics"
    /\ req' = [req EXCEPT ![i] = EconomicsStep(@)]
    /\ UNCHANGED <<heap, models, bat, last, ncalls, pure>>

Regression(i) ==
    /\ req[i].pc = "regression"
    /\ LET c == RegressionStep(ModelRef(i), req[i], models)
       IN  req' = [req EXCEPT ![i] = c.r] /\ models' = c.models
    /\ UNCHANGED <<heap, bat, last, ncalls, pure>>

Respond(i) ==
    /\ req[i].pc = "respond"
    /\ req' = [req EXCEPT ![i] = RespondStep(@, heap, models)]
    /\ UNCHANGED <<heap, models, bat, last, ncalls, pure>>

Next ==
    \/ \E i \in DOMAIN req : Validate(i)
    \/ \E i \in DOMAIN req : Generation(i)
    \/ \E i \in DOMAIN req : MakeBattery(i)
    \/ \E i \in DOMAIN req : Dispatch(i)
    \/ \E i \in DOMAIN req : Economics(i)
    \/ \E i \in DOMAIN req : Regression(i)
    \/ \E i \in DOMAIN req : Respond(i)

\* one request, any of the bodies
Init ==
    /\ \E data \in RequestBodies : req = [i \in {1} |-> NewRequest(data)]
    /\ heap = [i \in {1} |-> NoBattery]
    /\ models = [i \in {1} |-> NoModel]
    /\ bat = IdleBattery
    /\ last = NoCall
    /\ ncalls = 0
    /\ pure = IdlePure

Spec == Init /\ [][Next]_vars

\* the invocation run from its first statement to its reply with no other
\* invocation: the status and the response
RunAlone(data) ==
    LET h0 == [i \in {1} |-> NoBattery]
        m0 == [i \in {1} |-> NoModel]
        r1 == ValidateStep(NewRequest(data))
        r2 == IF r1.pc = "generation" THEN GenerationStep(r1) ELSE r1
        c3 == IF r2.pc = "battery" THEN BatteryStep(1, r2, h0) ELSE [r |-> r2, heap |-> h0]
        c4 == IF c3.r.pc = "dispatch" THEN DispatchStep(c3.r, c3.heap) ELSE c3
        r5 == IF c4.r.pc = "economics" THEN EconomicsStep(c4.r) ELSE c4.r
        c6 == IF r5.pc = "regression" THEN RegressionStep(1, r5, m0)
              ELSE [r |-> r5, models |-> m0]
        r7 == IF c6.r.pc = "respond" THEN RespondStep(c6.r, c4.heap, c6.models) ELSE c6.r
    IN  [status |-> r7.status, response |-> r7.response]

----------------------------------------------------------------------------
(* Several requests in flight at once                                       *)

NumRequests == 2

\* a surplus that charges a small battery, a deficit that drains a larger
\* one, and a load that the generation meets exactly
ConcurrentBodies ==
    {JObj(Body(SolarInputs(JNum(One)), WindInputs(FInt(12)), JNum(FInt(1)),
               BatteryInputs(FInt(3), FLit(1, 5), FLit(9, 10), FLit(4, 5)),
               LccaInputs(FLit(1, 4)))),
     JObj(Body(SolarInputs(JNum(FLit(1, 2))), WindInputs(FInt(2)), JNum(FInt(5)),
               BatteryInputs(FInt(10), FLit(3, 10), FLit(9, 10), FLit(4, 5)),
               LccaInputs(FLit(1, 4)))),
     JObj(Body(SolarInputs(JNum(One)), WindInputs(FInt(12)), JNum(FInt(4)),
               BatteryInputsDefaultSoc(FInt(10), FLit(9, 10), FLit(4, 5)),
               LccaInputs(FLit(1, 4))))}

InitConc ==
    /\ req \in [1..NumRequests -> {NewRequest(data) : data \in ConcurrentBodies}]
    /\ heap = [i \in 1..NumRequests |-> NoBattery]
    /\ models = [i \in 1..NumRequests |-> NoModel]
    /\ bat = IdleBattery
    /\ last = NoCall
    /\ ncalls = 0
    /\ pure = IdlePure

SpecConc == InitConc /\ [][Next]_vars

----------------------------------------------------------------------------
(* A Battery driven directly: any sequence of charge and discharge calls    *)

CapacityValues == {FInt(3), FInt(10)}
SocValues == {Zero, FLit(1, 5), FLit(3, 10), FLit(1, 2), One}
EtaValues == {FLit(4, 5), FLit(9, 10), One}
EnergyValues == {Zero, FInt(1), FInt(5), FInt(60)}

InitBattery ==
    /\ \E c \in CapacityValues, s \in SocValues, ec \in EtaValues, ed \in EtaValues :
           bat = Battery(c, s, ec, ed)
    /\ last = NoCall
    /\ ncalls = 0
    /\ req = IdleReq
    /\ heap = IdleHeap
    /\ models = IdleHeap
    /\ pure = IdlePure

Charge ==
    /\ ncalls < MaxCalls
    /\ \E x \in EnergyValues :
           LET r == charge(bat, x)
           IN  /\ bat' = r.self
               /\ last' = [op |-> "charge", arg |-> x, ret |-> r.ret, before |-> bat.soc]
    /\ ncalls' = ncalls + 1
    /\ UNCHANGED <<req, heap, models, pure>>

Discharge ==
    /\ ncalls < MaxCalls
    /\ \E y \in EnergyValues :
           LET r == discharge(bat, y)
           IN  /\ bat' = r.self
               /\ last' = [op |-> "discharge", arg |-> y, ret |-> r.ret, before |-> bat.soc]
    /\ ncalls' = ncalls + 1
    /\ UNCHANGED <<req, heap, models, pure>>

NextBattery == Charge \/ Discharge

SpecBattery == InitBattery /\ [][NextBattery]_vars

----------------------------------------------------------------------------
\* C1: with capacity > 0, efficiencies in (0,1] and soc0 in [0,1], soc stays
\* within [0,1] after every charge and discharge call.
C1_SocInUnitInterval == FLe(Zero, bat.soc) /\ FLe(bat.soc, One)

\* C5: a discharge that requests more than the available energy returns
\* soc_before * capacity * eta_d and leaves soc = 0.
C5_OverDischargeEmpties ==
    (last.op = "discharge"
        /\ FLt(FMul(FMul(last.before, bat.capacity), bat.eta_d), last.arg))
    => (/\ last.ret = FMul(FMul(last.before, bat.capacity), bat.eta_d)
        /\ bat.soc = Zero)

\* C6: a charge whose offered energy times eta_c covers the headroom
\* (1 - soc_before) * capacity leaves soc = 1 exactly.
C6_OverChargeFills ==
    (last.op = "charge"
        /\ FLe(FMul(FSub(One, last.before), bat.capacity), FMul(last.arg, bat.eta_c)))
    => bat.soc = One

----------------------------------------------------------------------------
(* One application of calculate_wind_power to drawn arguments               *)

MaxSpeed == 6

AirDensityValues == {One, FLit(6, 5)}
SweptAreaValues == {FInt(10), FInt(20)}
PowerCoefficientValues == {FLit(2, 5)}
SpeedValues == {FInt(k) : k \in 0..MaxSpeed}
ThresholdValues == {FInt(1), FInt(3), FInt(5)}
RatedPowerValues == {FInt(2), WindCubic(One, FInt(10), FLit(2, 5), FInt(3))}

InitWind ==
    /\ \E rho \in AirDensityValues, area \in SweptAreaValues,
          cp \in PowerCoefficientValues, v \in SpeedValues,
          v_cut_in \in ThresholdValues, v_rated \in ThresholdValues,
          v_cut_out \in ThresholdValues, p_rated \in RatedPowerValues :
           pure = [f |-> "calculate_wind_power", done |-> FALSE, ret |-> Zero,
                   rho |-> rho, area |-> area, cp |-> cp, v |-> v,
                   v_cut_in |-> v_cut_in, v_rated |-> v_rated,
                   v_cut_out |-> v_cut_out, p_rated |-> p_rated]
    /\ bat = IdleBattery
    /\ last = NoCall
    /\ ncalls = 0
    /\ req = IdleReq
    /\ heap = IdleHeap
    /\ models = IdleHeap

CallWindPower ==
    /\ ~pure.done
    /\ pure' = [pure EXCEPT
                   !.done = TRUE,
                   !.ret = calculate_wind_power(pure.rho, pure.area, pure.cp, pure.v,
                                                pure.v_cut_in, pure.v_rated,
                                                pure.v_cut_out, pure.p_rated)]
    /\ UNCHANGED <<req, heap, models, bat, last, ncalls>>

SpecWind == InitWind /\ [][CallWindPower]_vars

\* C8: for thresholds v_in <= v_rated <= v_out the power is 0 below v_in and
\* above v_out, the cubic value from v_in up to and including v_rated, and
\* p_rated above v_rated up to and including v_out.
C8_WindPiecewise ==
    (pure.done /\ FLe(pure.v_cut_in, pure.v_rated) /\ FLe(pure.v_rated, pure.v_cut_out))
    => /\ (FLt(pure.v, pure.v_cut_in) \/ FLt(pure.v_cut_out, pure.v))
              => pure.ret = Zero
       /\ (FLe(pure.v_cut_in, pure.v) /\ FLe(pure.v, pure.v_rated))
              => pure.ret = FDiv(FMul(FMul(FMul(FMul(FLit(1, 2), pure.rho), pure.area),
                                           FPow(pure.v, 3)), pure.cp), FInt(1000))
       /\ (FLt(pure.v_rated, pure.v) /\ FLe(pure.v, pure.v_cut_out))
              => pure.ret = pure.p_rated

\* C8 witness: the speed is exactly the rated speed, strictly inside the
\* operating range, the rated power differs from the cubic value, and the
\* cubic value was returned.
C8_Witness ==
    /\ pure.done
    /\ pure.v = pure.v_rated
    /\ FLt(pure.v_cut_in, pure.v_rated) /\ FLt(pure.v_rated, pure.v_cut_out)
    /\ pure.ret # pure.p_rated
    /\ pure.ret # Zero

----------------------------------------------------------------------------
(* One application of calculate_lcc to drawn arguments                      *)

MaxYears == 3

InitialCostValues == {Zero, FInt(1000)}
AnnualCostValues == {FInt(10)}
ReplacementCostValues == {Zero, FInt(100)}
SalvageValues == {Zero, FInt(20)}
DiscountRateValues == {FInt(-1), FLit(-1, 2), Zero, FLit(1, 4), One}

InitLcc ==
    /\ \E c_init \in InitialCostValues, c_om \in AnnualCostValues,
          c_rep \in ReplacementCostValues, s \in SalvageValues,
          r \in DiscountRateValues, n \in 0..MaxYears :
           pure = [f |-> "calculate_lcc", done |-> FALSE, ret |-> Zero, exc |-> "none",
                   c_init |-> c_init, c_om |-> c_om, c_rep |-> c_rep, s |-> s,
                   r |-> r, n |-> n]
    /\ bat = IdleBattery
    /\ last = NoCall
    /\ ncalls = 0
    /\ req = IdleReq
    /\ heap = IdleHeap
    /\ models = IdleHeap

CallLcc ==
    /\ ~pure.done
    /\ LET res == calculate_lcc(pure.c_init, pure.c_om, pure.c_rep, pure.s, pure.r, pure.n)
       IN  pure' = [pure EXCEPT !.done = TRUE, !.ret = res.ret, !.exc = res.exc]
    /\ UNCHANGED <<req, heap, models, bat, last, ncalls>>

SpecLcc == InitLcc /\ [][CallLcc]_vars

\* The claimed sum, accumulated from year 1: C_init + sum over y = 1..k of
\* annualCost(y) / (1 + r)^y, annualCost(y) being C_om before the final year
\* and C_om + C_rep - S in it.
RECURSIVE C10_PartialSum(_)
C10_PartialSum(k) ==
    IF k = 0 THEN pure.c_init
    ELSE FAdd(C10_PartialSum(k - 1),
              FDiv(IF k < pure.n THEN pure.c_om
                   ELSE FAdd(pure.c_om, FSub(pure.c_rep, pure.s)),
                   FPow(FAdd(One, pure.r), k)))

\* C10: for n >= 1 and r # -1, calculate_lcc returns C_init plus the sum over
\* the years of the discounted annual cost, replacement cost and salvage value
\* counted once, in the final year only.
C10_LccSum ==
    (pure.done /\ pure.n >= 1 /\ pure.r # FInt(-1))
    => (pure.exc = "none" /\ pure.ret = C10_PartialSum(pure.n))

\* C10 witness: a horizon of several years with a replacement cost that
\* differs from the salvage value, under a non-zero discount rate.
C10_Witness ==
    /\ pure.done /\ pure.exc = "none"
    /\ pure.n >= 2
    /\ pure.c_rep # pure.s
    /\ pure.r = FLit(1, 4)
    /\ pure.ret # pure.c_init

----------------------------------------------------------------------------
(* Claims about the handler                                                 *)

Done(i) == req[i].pc = "done"
Succeeded(i) == req[i].pc = "done" /\ req[i].status = 200
LoadOf(i) == req[i].data.o["load_demand"].v
GridOf(i) == req[i].data.o["grid_energy"].v

\* C2: when the surplus charged the battery, the surplus reported in the
\* energy balance is generated + grid - load minus the amount charge returned.
C2_SurplusNetOfCharge ==
    \A i \in DOMAIN req :
        (Succeeded(i) /\ Len(req[i].calls) = 1 /\ req[i].calls[1].op = "charge")
        => req[i].response.body.energy_balance.excess_or_curtailed_energy_kWh
              = FSub(FSub(FAdd(req[i].total_energy_generated, GridOf(i)), LoadOf(i)),
                     req[i].calls[1].ret)

\* the invocation has gone through the battery simulation without raising
PastDispatch(i) ==
    req[i].pc \in {"economics", "regression", "respond"} \/ Succeeded(i)

\* C3: a request makes at most one call on its battery: one charge of
\* generation - load when generation exceeds the load, one discharge of
\* load - generation when it falls short, and none, soc staying at its initial
\* value, when they are equal.
C3_OneBatteryOperation ==
    \A i \in DOMAIN req :
        /\ Len(req[i].calls) <= 1
        /\ PastDispatch(i)
           => LET total == req[i].total_energy_generated
                  load  == LoadOf(i)
                  calls == req[i].calls
              IN  /\ FLt(load, total)
                     => /\ Len(calls) = 1
                        /\ calls[1].op = "charge"
                        /\ calls[1].arg = FSub(total, load)
                  /\ FLt(total, load)
                     => /\ Len(calls) = 1
                        /\ calls[1].op = "discharge"
                        /\ calls[1].arg = FSub(load, total)
                  /\ total = load
                     => /\ calls = <<>>
                        /\ heap[req[i].battery].soc
                              = (IF "initial_soc" \in DOMAIN req[i].data.o["battery_inputs"].o
                                 THEN req[i].data.o["battery_inputs"].o["initial_soc"].v
                                 ELSE FLit(1, 2))

\* C3 witness: a request answered 200 whose generation fell short of the load
\* and whose battery delivered energy in its one discharge.
C3_Witness ==
    \E i \in DOMAIN req :
        /\ Succeeded(i)
        /\ FLt(req[i].total_energy_generated, LoadOf(i))
        /\ Len(req[i].calls) = 1
        /\ req[i].calls[1].op = "discharge"
        /\ req[i].calls[1].ret # Zero

\* the input has a required field missing or malformed: the body or a section
\* is no object, a top-level field or a key of a section is missing
MalformedInput(data) ==
    \/ data.t # "obj"
    \/ \E k \in Range(required_keys) : k \notin DOMAIN data.o
    \/ \E sec \in Range(Sections) :
           \/ data.o[sec].t # "obj"
           \/ \E k \in Range(SectionKeys(sec)) : k \notin DOMAIN data.o[sec].o

\* C4: a request with a missing or malformed required field is answered 400
\* with no partial results, and only other exceptions are answered 500.
C4_MalformedInputIs400 ==
    \A i \in DOMAIN req :
        Done(i)
        => /\ MalformedInput(req[i].data)
              => (req[i].status = 400 /\ req[i].response.body = NoBody)
           /\ req[i].status = 500 => ~MalformedInput(req[i].data)

\* C7: the state of charge reported by a request answered 200 is within
\* [0, 100] percent.
C7_ReportedSocInRange ==
    \A i \in DOMAIN req :
        Succeeded(i)
        => /\ FLe(Zero, req[i].response.body.battery_status.state_of_charge_percent)
           /\ FLe(req[i].response.body.battery_status.state_of_charge_percent, FInt(100))

\* C9: under any interleaving, the reply to each request is the reply the
\* same request gets when it is run alone.
C9_RepliesAsIfAlone ==
    \A i \in DOMAIN req :
        Done(i)
        => [status |-> req[i].status, response |-> req[i].response] = RunAlone(req[i].data)

\* C9 witness: two requests with different bodies have both been answered
\* 200, one after charging its battery and one after discharging it.
C9_Witness ==
    /\ \A i \in DOMAIN req : Succeeded(i)
    /\ \E i, j \in DOMAIN req :
           /\ req[i].data # req[j].data
           /\ Len(req[i].calls) = 1 /\ req[i].calls[1].op = "charge"
           /\ Len(req[j].calls) = 1 /\ req[j].calls[1].op = "discharge"
           /\ req[i].response.body.battery_status # req[j].response.body.battery_status

=============================================================================
